---- MODULE Spec2Model ----
(***************************************************************************)
(* Character database (character_database_streamlit.py): the Character     *)
(* record with its dict conversion, the file-backed CharacterDatabase, and *)
(* the Streamlit script that drives it.                                    *)
(*                                                                         *)
(* Text is a sequence of character codes, so that str.replace, str.lower,  *)
(* str.strip and string ordering are computed and not assumed.  A          *)
(* timestamp is the reading of the wall clock, a natural number;           *)
(* isoformat() is injective and order preserving on readings of the same   *)
(* width and the program never parses it back, so the reading stands for   *)
(* the string.  The clock is taken not to run backwards.                   *)
(***************************************************************************)
EXTENDS Integers, Sequences, FiniteSets, TLC

VARIABLES
    characters,   \* CharacterDatabase.characters: the dict, in insertion order
    files,        \* the *.json files of data_dir: file name -> parsed content
    clock,        \* what datetime.now() returns
    view,         \* st.session_state.view
    editing,      \* st.session_state.editing
    call,         \* the last operation: what was asked and how it ended
    rt            \* the subject of the to_dict / from_dict conversions

vars == <<characters, files, clock, view, editing, call, rt>>

-----------------------------------------------------------------------------
(* Bounds *)

\* the clock reads 0 .. MaxClock
MaxClock == 1

-----------------------------------------------------------------------------
(* Text *)

\* "Zed", "a b", "a_b": the names callers use.  Lower-cased they sort
\* "a b" < "a_b" < "zed", by code "Zed" < "a b" < "a_b"
Zed == <<90, 101, 100>>
a_space_b == <<97, 32, 98>>
a_under_b == <<97, 95, 98>>

Names == {Zed, a_space_b, a_under_b}

\* " ": a name the form refuses
Blank == <<32>>

\* None, and the empty string: both are false in `if editing_name`
None == <<>>

\* str.replace(' ', '_')
replace(s) == [i \in 1..Len(s) |-> IF s[i] = 32 THEN 95 ELSE s[i]]

\* str.lower() on ASCII
lower(s) == [i \in 1..Len(s) |-> IF s[i] >= 65 /\ s[i] <= 90 THEN s[i] + 32 ELSE s[i]]

WhiteSpace == {9, 10, 11, 12, 13, 28, 29, 30, 31, 32}

\* str.strip()
RECURSIVE lstrip(_)
lstrip(s) == IF s # <<>> /\ Head(s) \in WhiteSpace THEN lstrip(Tail(s)) ELSE s

RECURSIVE rstrip(_)
rstrip(s) ==
    IF s # <<>> /\ s[Len(s)] \in WhiteSpace THEN rstrip(SubSeq(s, 1, Len(s) - 1)) ELSE s

strip(s) == rstrip(lstrip(s))

\* a < b for str: lexicographic by code, a proper prefix first
RECURSIVE StrLess(_, _)
StrLess(a, b) ==
    IF b = <<>> THEN FALSE
    ELSE IF a = <<>> THEN TRUE
    ELSE IF Head(a) # Head(b) THEN Head(a) < Head(b)
    ELSE StrLess(Tail(a), Tail(b))

\* ".json"
JsonExt == <<46, 106, 115, 111, 110>>

\* f"{name.replace(' ', '_')}.json"
FileName(name) == replace(name) \o JsonExt

-----------------------------------------------------------------------------
(* Character *)

\* Character.__init__: the two timestamps are two readings of the clock
Character(name, char_class, level, str, dex, con, int, wis, cha, now1, now2) ==
    [name |-> name, char_class |-> char_class, level |-> level,
     strength |-> str, dexterity |-> dex, constitution |-> con,
     intelligence |-> int, wisdom |-> wis, charisma |-> cha,
     created_date |-> now1, modified_date |-> now2]

\* Character.to_dict
to_dict(c) ==
    [name |-> c.name, class |-> c.char_class, level |-> c.level,
     strength |-> c.strength, dexterity |-> c.dexterity,
     constitution |-> c.constitution, intelligence |-> c.intelligence,
     wisdom |-> c.wisdom, charisma |-> c.charisma,
     created_date |-> c.created_date, modified_date |-> c.modified_date]

\* dict.get(key, default)
dict_get(data, key, default) == IF key \in DOMAIN data THEN data[key] ELSE default

\* Character.from_dict: now is the four readings of the clock it takes, the
\* constructor's two and the two evaluated as the defaults of lines 47-48
from_dict_keep_now(data, now) ==
    Character(dict_get(data, "name", <<>>), dict_get(data, "class", ""),
              dict_get(data, "level", 1), dict_get(data, "strength", 10),
              dict_get(data, "dexterity", 10), dict_get(data, "constitution", 10),
              dict_get(data, "intelligence", 10), dict_get(data, "wisdom", 10),
              dict_get(data, "charisma", 10), now[1], now[2])
from_dict(data, now) ==
    LET char == Character(dict_get(data, "name", <<>>), dict_get(data, "class", ""),
                          dict_get(data, "level", 1), dict_get(data, "strength", 10),
                          dict_get(data, "dexterity", 10), dict_get(data, "constitution", 10),
                          dict_get(data, "intelligence", 10), dict_get(data, "wisdom", 10),
                          dict_get(data, "charisma", 10), now[1], now[2])
    IN [char EXCEPT !.created_date = dict_get(data, "created_date", now[3]),
                    !.modified_date = dict_get(data, "modified_date", now[4])]

-----------------------------------------------------------------------------
(* dict, in insertion order: a sequence of [key, val] with distinct keys *)

dict_has(d, k) == \E i \in 1..Len(d) : d[i].key = k

\* d.get(k): the value, or None
dict_lookup(d, k) ==
    IF dict_has(d, k) THEN d[CHOOSE i \in 1..Len(d) : d[i].key = k].val ELSE None

\* d[k] = v: in place when the key is there, appended when it is not
dict_set(d, k, v) ==
    IF dict_has(d, k)
    THEN [i \in 1..Len(d) |-> IF d[i].key = k THEN [key |-> k, val |-> v] ELSE d[i]]
    ELSE Append(d, [key |-> k, val |-> v])

\* del d[k], for a key that is there
dict_del(d, k) == SelectSeq(d, LAMBDA e : e.key # k)

dict_keys(d) == {d[i].key : i \in 1..Len(d)}

-----------------------------------------------------------------------------
(* CharacterDatabase *)

\* the orders in which glob("*.json") may yield the files of data_dir
GlobOrders(fs) ==
    {o \in [1..Cardinality(DOMAIN fs) -> DOMAIN fs] :
        \A i, j \in 1..Cardinality(DOMAIN fs) : i # j => o[i] # o[j]}

\* load_all_characters: the dict built from the files taken in this order
RECURSIVE load_from(_, _, _, _)
load_from(d, fs, order, now) ==
    IF order = <<>> THEN d
    ELSE LET char == from_dict(fs[Head(order)], <<now, now, now, now>>)
         IN load_from(dict_set(d, char.name, char), fs, Tail(order), now)

load_all_characters(fs, order, now) == load_from(<<>>, fs, order, now)

\* save_character, line 69: the record as it is written and kept
stamped_keep_caller(character, now) == character
stamped(character, now) == [character EXCEPT !.modified_date = now]

\* save_character, lines 70-72: the directory afterwards
save_files_keep_existing(fs, character, now) ==
    LET filename == FileName(character.name)
        data == to_dict(stamped(character, now))
    IN [f \in DOMAIN fs \cup {filename} |-> IF f \in DOMAIN fs THEN fs[f] ELSE data]
save_files(fs, character, now) ==
    LET filename == FileName(character.name)
        data == to_dict(stamped(character, now))
    IN [f \in DOMAIN fs \cup {filename} |-> IF f = filename THEN data ELSE fs[f]]

\* save_character, line 73: the mapping afterwards
save_characters(d, character, now) ==
    dict_set(d, character.name, stamped(character, now))

\* delete_character, lines 76-79: the directory afterwards
delete_files_keep(fs, name) == fs
delete_files(fs, name) ==
    LET filename == FileName(name)
    IN IF filename \in DOMAIN fs
       THEN [f \in DOMAIN fs \ {filename} |-> fs[f]]
       ELSE fs

\* delete_character, line 80: KeyError when the key is not there
delete_raises(d, name) == ~dict_has(d, name)

\* get_character
get_character(d, name) == dict_lookup(d, name)

\* sorted(..., key=) on a sequence of [k, v], k the key computed for v: a
\* stable insertion sort
RECURSIVE insert_sorted(_, _)
insert_sorted(s, c) ==
    IF s = <<>> THEN <<c>>
    ELSE IF StrLess(c.k, s[Len(s)].k)
         THEN Append(insert_sorted(SubSeq(s, 1, Len(s) - 1), c), s[Len(s)])
         ELSE Append(s, c)

RECURSIVE sorted(_)
sorted(s) ==
    IF s = <<>> THEN <<>>
    ELSE insert_sorted(sorted(SubSeq(s, 1, Len(s) - 1)), s[Len(s)])

\* list_characters
list_characters_case_sensitive(d) ==
    LET keyed == [i \in 1..Len(d) |-> [k |-> d[i].val.name, v |-> d[i].val]]
        out == sorted(keyed)
    IN [i \in 1..Len(out) |-> out[i].v]
list_characters(d) ==
    LET keyed == [i \in 1..Len(d) |-> [k |-> lower(d[i].val.name), v |-> d[i].val]]
        out == sorted(keyed)
    IN [i \in 1..Len(out) |-> out[i].v]

-----------------------------------------------------------------------------
(* What callers hand in *)

CLASSES == <<"Barbarian", "Bard", "Cleric", "Druid", "Fighter", "Monk",
             "Paladin", "Ranger", "Rogue", "Sorcerer", "Warlock", "Wizard">>

\* the widgets' values: class, level and the six ability scores; the first is
\* the empty form, the second the sheet of a level 5 fighter
Sheets ==
    {[char_class |-> CLASSES[1], level |-> 1, strength |-> 10, dexterity |-> 10,
      constitution |-> 10, intelligence |-> 10, wisdom |-> 10, charisma |-> 10],
     [char_class |-> CLASSES[5], level |-> 5, strength |-> 16, dexterity |-> 12,
      constitution |-> 14, intelligence |-> 8, wisdom |-> 10, charisma |-> 13]}

\* Character(name, ...) built from a sheet at clock reading now
NewCharacter(name, sheet, now) ==
    Character(name, sheet.char_class, sheet.level, sheet.strength, sheet.dexterity,
              sheet.constitution, sheet.intelligence, sheet.wisdom, sheet.charisma,
              now, now)

Times == 0..MaxClock

-----------------------------------------------------------------------------
(* The store, called directly *)

\* what `call` keeps of an operation: which, on what name, how it ended
\* ("none" or the error raised), and what it returned
Called(op, name, err, ret) == [op |-> op, name |-> name, err |-> err, ret |-> ret, arg |-> None]

NoCall == Called("init", None, "none", None)

Init ==
    /\ characters = <<>>
    /\ files = <<>>
    /\ clock = 0
    /\ view = "list"
    /\ editing = None
    /\ call = NoCall
    /\ rt = None

\* time passes between two calls
Tick ==
    /\ clock < MaxClock
    /\ clock' = clock + 1
    /\ call' = Called("tick", None, "none", None)
    /\ UNCHANGED <<characters, files, view, editing, rt>>

\* what a caller hands in: a sheet, and the modified_date it left on the
\* record, the earliest there is with one sheet and the latest with the other
CallerInputs ==
    {[sheet |-> sh, modified_date |-> IF sh.level = 1 THEN 0 ELSE MaxClock] : sh \in Sheets}

\* the created_date of a record handed in: that of its construction now, or
\* one carried over from a record of the mapping
CallerCreated == {clock} \cup {characters[i].val.created_date : i \in 1..Len(characters)}

\* db.save_character(c), c a record built for this call as on line 221 (not
\* an object the mapping already holds)
SaveCharacter ==
    \E name \in Names, in \in CallerInputs, created \in CallerCreated :
        LET c == [NewCharacter(name, in.sheet, created)
                      EXCEPT !.modified_date = in.modified_date]
        IN /\ files' = save_files(files, c, clock)
           /\ characters' = save_characters(characters, c, clock)
           /\ call' = [Called("save", name, "none", None) EXCEPT !.arg = c]
           /\ UNCHANGED <<clock, view, editing, rt>>

\* db.delete_character(name)
DeleteCharacter ==
    \E name \in Names :
        /\ files' = delete_files(files, name)
        /\ IF delete_raises(characters, name)
           THEN /\ characters' = characters
                /\ call' = Called("delete", name, "KeyError", None)
           ELSE /\ characters' = dict_del(characters, name)
                /\ call' = Called("delete", name, "none", None)
        /\ UNCHANGED <<clock, view, editing, rt>>

\* db.get_character(name)
GetCharacter ==
    \E name \in Names :
        /\ call' = Called("get", name, "none", get_character(characters, name))
        /\ UNCHANGED <<characters, files, clock, view, editing, rt>>

\* db.list_characters()
ListCharacters ==
    /\ call' = Called("list", None, "none", list_characters(characters))
    /\ UNCHANGED <<characters, files, clock, view, editing, rt>>

\* db.load_all_characters(), also what CharacterDatabase() ends with
LoadAllCharacters ==
    \E order \in GlobOrders(files) :
        /\ characters' = load_all_characters(files, order, clock)
        /\ call' = Called("load", None, "none", None)
        /\ UNCHANGED <<files, clock, view, editing, rt>>

Next ==
    \/ Tick
    \/ SaveCharacter
    \/ DeleteCharacter
    \/ GetCharacter
    \/ ListCharacters
    \/ LoadAllCharacters

Spec == Init /\ [][Next]_vars

-----------------------------------------------------------------------------
(* The Streamlit script: every run builds db = CharacterDatabase() anew,    *)
(* which loads the directory, and then serves the one widget that fired.    *)

\* the clock readings a later datetime.now() of the same run may give
Later(t) == {u \in Times : t <= u /\ u <= t + 1}

\* a run in which no button fired
Rerun ==
    \E order \in GlobOrders(files) :
        /\ characters' = load_all_characters(files, order, clock)
        /\ call' = Called("rerun", None, "none", None)
        /\ UNCHANGED <<files, clock, view, editing, rt>>

\* "+ New Character", lines 168-171
ClickNewCharacter ==
    /\ view = "list"
    /\ \E order \in GlobOrders(files) :
           characters' = load_all_characters(files, order, clock)
    /\ editing' = None
    /\ view' = "form"
    /\ call' = Called("new", None, "none", None)
    /\ UNCHANGED <<files, clock, rt>>

\* "Edit" on a row of the list, lines 188-191
ClickEdit ==
    /\ view = "list"
    /\ \E order \in GlobOrders(files) :
           LET db == load_all_characters(files, order, clock)
               shown == list_characters(db)
           IN \E i \in 1..Len(shown) :
                  /\ characters' = db
                  /\ editing' = shown[i].name
                  /\ view' = "form"
                  /\ call' = Called("edit", shown[i].name, "none", None)
    /\ UNCHANGED <<files, clock, rt>>

\* "Delete" on a row of the list, lines 192-194
ClickDelete ==
    /\ view = "list"
    /\ \E order \in GlobOrders(files) :
           LET db == load_all_characters(files, order, clock)
               shown == list_characters(db)
           IN \E i \in 1..Len(shown) :
                  LET name == shown[i].name
                  IN /\ files' = delete_files(files, name)
                     /\ IF delete_raises(db, name)
                        THEN /\ characters' = db
                             /\ call' = Called("form_delete", name, "KeyError", None)
                        ELSE /\ characters' = dict_del(db, name)
                             /\ call' = Called("form_delete", name, "none", None)
    /\ UNCHANGED <<clock, view, editing, rt>>

\* the form's record, lines 221-224: built now, created_date taken from the
\* record being edited when there is one
form_character(name, sheet, existing, now) ==
    IF existing # None
    THEN [NewCharacter(name, sheet, now) EXCEPT !.created_date = existing.created_date]
    ELSE NewCharacter(name, sheet, now)

\* "Save" on the form, lines 198-228: name and sheet are the widgets' values
ClickSave ==
    /\ view = "form"
    /\ \E order \in GlobOrders(files), name \in Names \cup {Blank}, sheet \in Sheets :
           LET db == load_all_characters(files, order, clock)
               existing == IF editing # None THEN get_character(db, editing) ELSE None
           IN IF strip(name) = <<>>
              THEN /\ characters' = db
                   /\ call' = Called("form_save", name, "Name is required.", existing)
                   /\ UNCHANGED <<files, clock, view, editing>>
              ELSE \E now \in Later(clock) :
                       LET char == form_character(name, sheet, existing, clock)
                       IN /\ files' = save_files(files, char, now)
                          /\ characters' = save_characters(db, char, now)
                          /\ clock' = now
                          /\ editing' = None
                          /\ view' = "list"
                          /\ call' = Called("form_save", name, "none", existing)
    /\ UNCHANGED rt

\* "Back to list", lines 230-233
ClickBack ==
    /\ view = "form"
    /\ \E order \in GlobOrders(files) :
           characters' = load_all_characters(files, order, clock)
    /\ editing' = None
    /\ view' = "list"
    /\ call' = Called("back", None, "none", None)
    /\ UNCHANGED <<files, clock, rt>>

NextApp ==
    \/ Tick
    \/ Rerun
    \/ ClickNewCharacter
    \/ ClickEdit
    \/ ClickDelete
    \/ ClickSave
    \/ ClickBack

SpecApp == Init /\ [][NextApp]_vars

-----------------------------------------------------------------------------
(* The conversions on their own: a Character is turned into its dict, the   *)
(* dict may lose keys, and from_dict reads it back.                         *)

Keys ==
    {"name", "class", "level", "strength", "dexterity", "constitution",
     "intelligence", "wisdom", "charisma", "created_date", "modified_date"}

\* the key sets a mapping handed to from_dict lacks: none is tried by not
\* dropping, then each key alone, both timestamps, and all of them
DropSets == {{k} : k \in Keys} \cup {{"created_date", "modified_date"}, Keys}

\* the records converted: any name in use or none, either sheet or a sheet
\* with no class, any two timestamps
SheetsRT == Sheets \cup {[sh EXCEPT !.char_class = ""] : sh \in Sheets}

InitRT ==
    /\ characters = <<>>
    /\ files = <<>>
    /\ clock = 0
    /\ view = "list"
    /\ editing = None
    /\ call = NoCall
    /\ \E name \in Names \cup {<<>>}, sheet \in SheetsRT, created \in Times, modified \in Times :
           rt = [stage |-> "made",
                 c |-> [NewCharacter(name, sheet, created) EXCEPT !.modified_date = modified],
                 data |-> None, dropped |-> {}, t0 |-> 0, out |-> None]

\* c.to_dict()
ToDict ==
    /\ rt.stage = "made"
    /\ rt' = [rt EXCEPT !.stage = "dict", !.data = to_dict(rt.c)]
    /\ call' = Called("to_dict", None, "none", None)
    /\ UNCHANGED <<characters, files, clock, view, editing>>

\* the mapping reaches from_dict without some of its keys
DropKeys ==
    /\ rt.stage = "dict"
    /\ \E drop \in DropSets :
           rt' = [rt EXCEPT !.stage = "partial",
                            !.data = [k \in DOMAIN rt.data \ drop |-> rt.data[k]],
                            !.dropped = drop]
    /\ call' = Called("drop", None, "none", None)
    /\ UNCHANGED <<characters, files, clock, view, editing>>

\* Character.from_dict(data): its four readings of the clock do not go back
FromDict ==
    /\ rt.stage \in {"dict", "partial"}
    /\ \E n1 \in Later(clock) : \E n2 \in Later(n1) : \E n3 \in Later(n2) : \E n4 \in Later(n3) :
           /\ rt' = [rt EXCEPT !.stage = "done", !.t0 = clock,
                               !.out = from_dict(rt.data, <<n1, n2, n3, n4>>)]
           /\ clock' = n4
    /\ call' = Called("from_dict", None, "none", None)
    /\ UNCHANGED <<characters, files, view, editing>>

NextRT ==
    \/ Tick
    \/ ToDict
    \/ DropKeys
    \/ FromDict

SpecRT == InitRT /\ [][NextRT]_vars

-----------------------------------------------------------------------------
(* What the claims speak of *)

\* the files whose stored 'name' field is n
FilesNamed(fs, n) == {f \in DOMAIN fs : fs[f].name = n}

\* the names load_all_characters would find in the directory
StoredNames(fs) == {fs[f].name : f \in DOMAIN fs}

\* the record the mapping holds for n, a key of it
Entry(d, n) == dict_lookup(d, n)

\* n is in the mapping and its file holds the mapped record
Stored(n) ==
    /\ dict_has(characters, n)
    /\ FileName(n) \in DOMAIN files
    /\ files[FileName(n)] = to_dict(Entry(characters, n))

\* a sequence of records ascends by lower-cased name
AscendingByLowerName(s) ==
    \A i, j \in 1..Len(s) : i < j => ~StrLess(lower(s[j].name), lower(s[i].name))

-----------------------------------------------------------------------------
(* Claims on the store, under Spec *)

\* C1: after any saves and deletes on a store begun on an empty directory the
\* mapping and the directory are synchronized: every name of the mapping has
\* exactly one file storing that name, holding the mapped record, and every
\* file stores a name of the mapping.
C1_Synchronized ==
    /\ \A n \in dict_keys(characters) :
           /\ Cardinality(FilesNamed(files, n)) = 1
           /\ \A f \in FilesNamed(files, n) : files[f] = to_dict(Entry(characters, n))
    /\ \A f \in DOMAIN files : dict_has(characters, files[f].name)

\* C3: a save at clock reading t leaves modified_date = t in the mapping and in
\* the file, whatever the caller had put there; over saves of one name
\* modified_date does not decrease and is not earlier than created_date.
C3_ModifiedIsNow ==
    [][call'.op = "save" =>
          LET n == call'.name
              new == Entry(characters', n)
          IN /\ dict_has(characters', n)
             /\ new.modified_date = clock'
             /\ FileName(n) \in DOMAIN files'
             /\ files'[FileName(n)]["modified_date"] = clock'
             /\ new.modified_date >= new.created_date
             /\ dict_has(characters, n) =>
                    /\ new.modified_date >= Entry(characters, n).modified_date
                    /\ new.modified_date >= Entry(characters, n).created_date]_vars

\* C3's case: the caller's modified_date was another than the clock's reading,
\* and the record replaced one saved earlier with an older created_date kept
C3_Witness ==
    /\ call.op = "save"
    /\ call.arg.modified_date # clock
    /\ Entry(characters, call.name).modified_date = clock
    /\ Entry(characters, call.name).created_date < clock

\* C4: delete_character(name) with an entry for name removes the entry and the
\* file derived from name, so that get_character(name) is None and no file of
\* name is left; without an entry it fails with KeyError; a second delete
\* after a successful one fails.
C4_Delete ==
    /\ [][call'.op = "delete" =>
             LET n == call'.name
             IN IF dict_has(characters, n)
                THEN /\ call'.err = "none"
                     /\ ~dict_has(characters', n)
                     /\ get_character(characters', n) = None
                     /\ FileName(n) \notin DOMAIN files'
                     /\ FilesNamed(files', n) = {}
                ELSE call'.err = "KeyError"]_vars
    /\ [][(call.op = "delete" /\ call.err = "none"
            /\ call'.op = "delete" /\ call'.name = call.name)
          => call'.err = "KeyError"]_vars

\* C4's case: a delete went through and took the file with it, another
\* record staying behind
C4_Witness ==
    /\ call.op = "delete"
    /\ call.err = "none"
    /\ FileName(call.name) \notin DOMAIN files
    /\ DOMAIN files # {}

\* C5: each name has at most one entry and at most one file; a save of a name
\* the mapping already holds leaves one entry and one file for it, both with
\* the fields of this save, and list_characters returns no more records.
C5_OneEntryOneFile ==
    /\ [](/\ \A i, j \in 1..Len(characters) :
                 characters[i].key = characters[j].key => i = j
          /\ \A n \in Names : Cardinality(FilesNamed(files, n)) <= 1)
    /\ [][(call'.op = "save" /\ dict_has(characters, call'.name)) =>
             LET n == call'.name
                 kept == [call'.arg EXCEPT !.modified_date = clock']
             IN /\ Len(characters') = Len(characters)
                /\ Len(list_characters(characters')) = Len(list_characters(characters))
                /\ Cardinality({i \in 1..Len(characters') : characters'[i].key = n}) = 1
                /\ Entry(characters', n) = kept
                /\ FilesNamed(files', n) = {FileName(n)}
                /\ files'[FileName(n)] = to_dict(kept)]_vars

\* C5's case: the name was saved twice, the second time with another sheet,
\* and other names are stored beside it
C5_Witness ==
    /\ call.op = "save"
    /\ Len(characters) = 2
    /\ Entry(characters, call.name).level = 5
    /\ Entry(characters, call.name).created_date < clock
    /\ Cardinality(DOMAIN files) = 2

\* C6: the file of a stored name n stays, with its content, through every
\* operation other than delete_character(n) and save_character of a record
\* named n.
C6_OnlyOwnCallsTouchFile ==
    [][\A n \in Names :
          (Stored(n) /\ ~(call'.op \in {"save", "delete"} /\ call'.name = n))
          => /\ FileName(n) \in DOMAIN files'
             /\ files'[FileName(n)] = files[FileName(n)]]_vars

\* C7: list_characters returns the records of the mapping, each once, in
\* ascending order of lower-cased name; get_character returns the mapped
\* record or None; neither changes the mapping or the directory.
C7_ListAndGet ==
    [][/\ call'.op = "list" =>
             /\ characters' = characters
             /\ files' = files
             /\ Len(call'.ret) = Len(characters)
             /\ \A i \in 1..Len(characters) :
                    Cardinality({j \in 1..Len(call'.ret) : call'.ret[j] = characters[i].val}) = 1
             /\ AscendingByLowerName(call'.ret)
       /\ call'.op = "get" =>
             /\ characters' = characters
             /\ files' = files
             /\ \A i \in 1..Len(characters) :
                    characters[i].key = call'.name => call'.ret = characters[i].val
             /\ call'.name \notin dict_keys(characters) => call'.ret = None]_vars

\* C7's case: three records listed, "Zed" saved first and listed last
C7_Witness ==
    /\ call.op = "list"
    /\ Len(call.ret) = 3
    /\ characters[1].key = Zed
    /\ call.ret[3].name = Zed
    /\ call.ret[1].name = a_space_b

\* C10: a delete_character that fails with KeyError leaves the mapping and the
\* directory as they were.
C10_FailedDeleteChangesNothing ==
    [][(call'.op = "delete" /\ call'.err = "KeyError")
       => (characters' = characters /\ files' = files)]_vars

-----------------------------------------------------------------------------
(* Claims on the form, under SpecApp *)

\* the created_date on file for n, a stored name
CreatedOnFile(fs, n) == fs[CHOOSE f \in DOMAIN fs : fs[f].name = n]["created_date"]

\* C2: the created_date recorded for a name does not change from its first
\* save on, through every later Save of the form and every reload, until the
\* name is deleted.
C2_CreatedDateKept ==
    [][\A n \in Names :
          (n \in StoredNames(files) /\ n \in StoredNames(files'))
          => CreatedOnFile(files', n) = CreatedOnFile(files, n)]_vars

\* C9: when the form edits the record of name N and saves it under another
\* name M, nothing is removed: the mapping and the directory hold N and M
\* afterwards, and so does the list of the next run.
C9_RenameKeepsBoth ==
    [][(call'.op = "form_save" /\ call'.err = "none"
         /\ call'.ret # None /\ call'.name # call'.ret.name)
       => /\ {call'.ret.name, call'.name} \subseteq dict_keys(characters')
          /\ {call'.ret.name, call'.name} \subseteq StoredNames(files')
          /\ FileName(call'.ret.name) \in DOMAIN files'
          /\ files'[FileName(call'.ret.name)] = to_dict(call'.ret)]_vars

-----------------------------------------------------------------------------
(* Claims on the conversions, under SpecRT *)

\* the attribute of a Character that a key of its dict holds
Attr(c, k) == IF k = "class" THEN c.char_class ELSE c[k]

\* C8: from_dict(c.to_dict()) has every field of c, the timestamps as they
\* were; a key missing from the mapping gets its default: '' for name and
\* class, 1 for level, 10 for an ability score, the time of the call for a
\* timestamp.
C8_RoundTrip ==
    rt # None /\ rt.stage = "done" =>
        /\ DOMAIN rt.out = DOMAIN rt.c
        /\ \A k \in Keys \ rt.dropped : Attr(rt.out, k) = Attr(rt.c, k)
        /\ \A k \in rt.dropped :
               CASE k \in {"name"} -> Attr(rt.out, k) = <<>>
                 [] k \in {"class"} -> Attr(rt.out, k) = ""
                 [] k = "level" -> Attr(rt.out, k) = 1
                 [] k \in {"created_date", "modified_date"} ->
                        rt.t0 <= Attr(rt.out, k) /\ Attr(rt.out, k) <= clock
                 [] OTHER -> Attr(rt.out, k) = 10

\* C8's case: a whole dict read back after the clock moved on, the record
\* none of the defaults
C8_Witness ==
    /\ rt # None
    /\ rt.stage = "done"
    /\ rt.dropped = {}
    /\ rt.out = rt.c
    /\ rt.c.created_date < rt.t0
    /\ rt.c.modified_date < rt.t0
    /\ rt.c.level = 5
    /\ rt.c.name = a_space_b

====
